---- MODULE Spec2Model ----
(***************************************************************************)
(* Model of cliconfig.py (class EndaceProbeCLISession and main): a script  *)
(* of CLI lines is read twice (a macro pre-pass, then the execution pass)  *)
(* and every command line is written to an interactive SSH channel, whose  *)
(* answer is polled until a prompt pattern matches.                        *)
(*                                                                         *)
(* Text (script lines, patterns, channel bytes) is a sequence of tokens.   *)
(* A token is a maximal piece of text the regular expressions of the code  *)
(* never look inside: a word, one whitespace character, one punctuation    *)
(* character, a '<NAME>' placeholder, or a fixed phrase of the device.     *)
(***************************************************************************)
EXTENDS Integers, Sequences, FiniteSets, TLC

VARIABLES
    pc,             \* position of main: getargs, discover, open, recv, exec, done, exited, crashed
    script,         \* the lines of the file named by args.file
    cms_profile,    \* args.cms_profile (NoProfile when -c is not given)
    vars,           \* self.vars: name -> None or Some(value)
    prompt,         \* self.prompt: the list of prompt patterns
    cms_cmd_count,  \* self.cms_cmd_count
    lineno,         \* index of the line the running parse_file pass is at
    conn,           \* self.conn: unopened, open, closed
    chan,           \* the remote end of self.chan: none, open, exited, closed
    chanTimeout,    \* TRUE once self.chan.settimeout(ssh_timeout) was called
    response,       \* the local 'response' of the innermost parse_command_response
    depth,          \* number of parse_command_response frames below the innermost
    caller,         \* who called the outermost parse_command_response
    cycle,          \* how the latest receive cycle stands or ended
    sent,           \* everything written by self.chan.sendall, in order
    log,            \* what the run reports: records of self.logger, uncaught exceptions
    cyclelog,       \* the records self.logger got in the receive cycle of the latest command
    slept,          \* seconds spent in time.sleep
    fileErr         \* TRUE when open(self.args.file) fails

vars_all == <<pc, script, cms_profile, vars, prompt, cms_cmd_count, lineno,
              conn, chan, chanTimeout, response, depth, caller, cycle, sent, log,
              cyclelog, slept, fileErr>>

---------------------------------------------------------------------------
(* Bounds of the model. *)
MaxLines == 2       \* lines of a script
MaxResp == 2        \* tokens the device sends within one receive cycle
MaxYes == 1         \* confirmation prompts the device raises within one run

---------------------------------------------------------------------------
(* Values. *)
None == <<>>
Some(v) == <<v>>
NoProfile == ""

VarNames == {"URL", "VMNAME", "IMAGE"}
Placeholder(x) == CASE x = "URL" -> "<URL>" [] x = "VMNAME" -> "<VMNAME>" [] x = "IMAGE" -> "<IMAGE>"

SpaceTokens == {" ", "\n", "\r", "\t"}
WordTokens == {"prompt", "exit", "sleep", "p", "3", "host", "en", "co", "t", "a", "s",
               "vm1", "h", "img", "YES"}
IsSpace(t) == t \in SpaceTokens
IsWord(t) == t \in WordTokens

(* re.match(name, target) for a name made of word characters: the name is a
   literal pattern anchored at the start of target, so it matches exactly when
   the name is a non-empty prefix of target. *)
PrefixesOf(target) ==
    CASE target = "prompt" -> {"p", "pr", "pro", "prom", "promp", "prompt"}
      [] target = "exit" -> {"e", "ex", "exi", "exit"}
      [] target = "sleep" -> {"s", "sl", "sle", "slee", "sleep"}
ReMatch(name, target) == name \in PrefixesOf(target)

(* re.search(pattern, text) for a pattern that is a sequence of character
   classes (each a set of tokens): a match anywhere in the text. *)
Search(pat, text) ==
    \E off \in 0..(Len(text) - Len(pat)) : \A k \in 1..Len(pat) : text[off + k] \in pat[k]
Literal(text) == [k \in 1..Len(text) |-> {text[k]}]

---------------------------------------------------------------------------
(* The inputs: command line arguments, script files, device output. *)

LineComment == <<"#", "s", "\n">>
LineBlank == <<"\n">>
LineSpace == <<" ", "\n">>
LinePrompt == <<"@", "prompt", " ", "host", "\n">>
LinePrefix == <<"@", "p", " ", "t", "\n">>
LineExit == <<"@", "exit", "\n">>
LineSleep == <<"@", "sleep", " ", "3", "\n">>
LineBadMacro == <<"@", "\n">>
LineLogin == <<"en", "\n">>
LineInner == <<"a", " ", "co", " ", "t", "\n">>
LineVars == <<"s", " ", "<VMNAME>", "<IMAGE>", "<IMAGE>", "\n">>

ScriptLines == {LineComment, LineBlank, LineSpace, LinePrompt, LinePrefix, LineExit,
                LineSleep, LineBadMacro, LineLogin, LineInner, LineVars}
Scripts == UNION {[1..n -> ScriptLines] : n \in 0..MaxLines}

UrlArgs == {None, Some(<<"h", "/", "img">>)}
NameArgs == {None, Some(<<"vm1">>)}
ProfileArgs == {NoProfile, "p1"}
VarOrders == {o \in [1..3 -> VarNames] : \A i, j \in 1..3 : i # j => o[i] # o[j]}

HostName == "host"
ConfirmToken == "configuration mode anyway: "
RespTokens == {HostName, " # ", ConfirmToken}

(* What a device may send beyond prompts: a line of its error convention
   (newline, percent sign, space, text, newline), and the two bytes of the
   UTF-8 encoding of one character outside ASCII. *)
ErrorToken == "\n% bad command\n"
LeadByte == "<C3>"
ContByte == "<A9>"
DeviceTokens == RespTokens \cup {ErrorToken, LeadByte, ContByte}

(* response.decode('utf-8') returns: every lead byte is followed by its
   continuation byte and every continuation byte follows a lead byte. *)
Decodable(text) ==
    \A k \in 1..Len(text) :
       /\ text[k] = LeadByte => (k < Len(text) /\ text[k + 1] = ContByte)
       /\ text[k] = ContByte => (k > 1 /\ text[k - 1] = LeadByte)

(* An exception nothing catches ends the run with a traceback. *)
Traceback(exc) == [ev |-> "traceback", arg |-> exc, lineno |-> 0]

---------------------------------------------------------------------------
(* getargs *)

(* re.split('/', url)[-1] *)
RECURSIVE LastPart(_)
LastPart(url) ==
    IF \E i \in 1..Len(url) : url[i] = "/"
    THEN LastPart(Tail(url))
    ELSE url

InitVars == [x \in VarNames |-> IF x = "VMNAME" THEN Some(<<"default-vm">>) ELSE None]

PopulateVars(v, url, vmname) ==
    LET v1 == IF url # None
              THEN [v EXCEPT !["URL"] = url, !["IMAGE"] = Some(LastPart(url[1]))]
              ELSE v
    IN  IF v1["VMNAME"] # None THEN [v1 EXCEPT !["VMNAME"] = vmname] ELSE v1

DefaultPrompts ==
    << <<{HostName}, {" # ", " > "}>>,
       <<{HostName}, {" (config)"}>>,
       <<{"Escape character is: 'Ctrl ^'"}>> >>

cmc_prompt == <<{ConfirmToken}>>
cli_error_re == <<{ErrorToken}>>

---------------------------------------------------------------------------
(* parse_file, parse_macro, exec_macro *)

IsComment(line) == Len(line) >= 1 /\ line[1] = "#"                 \* re.search('^#', line)
IsBlank(line) == line = <<"\n">> \/ line = <<"\r", "\n">>          \* re.search('^\r?\n$', line)
StartsAt(line) == Len(line) >= 1 /\ line[1] = "@"                  \* re.search('^@', line)
StartsAtWord(line) == Len(line) >= 2 /\ line[1] = "@" /\ IsWord(line[2])   \* re.search('^@\w+', line)

(* The search of parse_macro and exec_macro for '@', a name of word characters,
   one whitespace character and the action, the rest of the line: '.' matches
   no newline and '$' matches at the end or before a final newline. *)
MacroMatches(line) ==
    /\ Len(line) >= 3
    /\ line[1] = "@" /\ IsWord(line[2]) /\ IsSpace(line[3])
    /\ \A i \in 4..Len(line) : line[i] = "\n" => i = Len(line)
MacroName(line) == line[2]
MacroAction(line) ==
    SubSeq(line, 4, IF line[Len(line)] = "\n" THEN Len(line) - 1 ELSE Len(line))

(* parse_macro appending the macro name in place of its action. *)
ParseMacroWrongGroup(line, prompts) ==
    IF ~MacroMatches(line) THEN <<"error">>
    ELSE IF ReMatch(MacroName(line), "prompt")
         THEN Append(prompts, Literal(<<MacroName(line)>>))
         ELSE prompts

(* parse_macro: the prompt list after the call, or "error" in a one element
   sequence when out is None (AttributeError). *)
ParseMacro(line, prompts) ==
    IF ~MacroMatches(line) THEN <<"error">>
    ELSE IF ReMatch(MacroName(line), "prompt")
         THEN Append(prompts, Literal(MacroAction(line)))
         ELSE prompts

(* int(out.group('action')) *)
Digits == {"3"}
IsInt(action) == Len(action) = 1 /\ action[1] \in Digits
IntOf(action) == CASE action[1] = "3" -> 3

(* exec_macro testing the CMS profile before the exit macro. *)
ExecMacroProfileFirst(line, profile) ==
    IF ~MacroMatches(line) THEN "error"
    ELSE IF profile # NoProfile THEN "return"
    ELSE IF ReMatch(MacroName(line), "exit") THEN "exit"
    ELSE IF ReMatch(MacroName(line), "sleep")
         THEN (IF IsInt(MacroAction(line)) THEN "sleep" ELSE "error")
    ELSE "return"

(* exec_macro without the return that skips the other macros when a CMS
   profile is written. *)
ExecMacroSleepInProfile(line, profile) ==
    IF ~MacroMatches(line) THEN "error"
    ELSE IF ReMatch(MacroName(line), "exit") THEN "exit"
    ELSE IF ReMatch(MacroName(line), "sleep")
         THEN (IF IsInt(MacroAction(line)) THEN "sleep" ELSE "error")
    ELSE "return"

(* exec_macro: what the call does: "exit" (SystemExit), "sleep", "return"
   (nothing done) or "error" (an exception is raised). *)
ExecMacro(line, profile) ==
    IF ~MacroMatches(line) THEN "error"
    ELSE IF ReMatch(MacroName(line), "exit") THEN "exit"
    ELSE IF profile # NoProfile THEN "return"
    ELSE IF ReMatch(MacroName(line), "sleep")
         THEN (IF IsInt(MacroAction(line)) THEN "sleep" ELSE "error")
    ELSE "return"

(* re.sub(pattern, value, line) for the pattern '<NAME>' *)
RECURSIVE ReSub(_, _, _)
ReSub(line, tok, val) ==
    IF line = <<>> THEN <<>>
    ELSE (IF Head(line) = tok THEN val ELSE <<Head(line)>>) \o ReSub(Tail(line), tok, val)

(* The loop 'for x in self.vars' of parse_file, the dict being iterated in
   the given order: the line that is sent and the names reported as having no
   replacement value. *)
RECURSIVE Substitute(_, _, _)
Substitute(line, order, v) ==
    IF order = <<>> THEN [line |-> line, info |-> {}]
    ELSE LET x == Head(order)
         IN  IF ~Search(<<{Placeholder(x)}>>, line)
             THEN Substitute(line, Tail(order), v)
             ELSE IF v[x] = None
                  THEN [line |-> line, info |-> {x}]
                  ELSE Substitute(ReSub(line, Placeholder(x), v[x][1]), Tail(order), v)

---------------------------------------------------------------------------
(* send_command *)

(* re.search('^en|co\st', line) *)
LoginPrefix(line) ==
    \/ Len(line) >= 1 /\ line[1] = "en"
    \/ Search(<<{"co"}, SpaceTokens, {"t"}>>, line)

RECURSIVE RStrip(_)
RStrip(line) ==
    IF line # <<>> /\ IsSpace(line[Len(line)])
    THEN RStrip(SubSeq(line, 1, Len(line) - 1))
    ELSE line

(* 'cmc profile %s command %d "%s"\n' % (profile, count, line.rstrip()) *)
Wrapped(profile, count, line) ==
    <<"cmc profile ", profile, " command ", ToString(count), " \"">>
        \o RStrip(line) \o <<"\"", "\n">>

NeedsWrap(line, profile) == profile # NoProfile /\ ~LoginPrefix(line)

CommandText(line, profile, count) ==
    IF NeedsWrap(line, profile) THEN Wrapped(profile, count, line) ELSE line

YesLine == <<"YES", "\n">>

(* send_command up to the first poll of parse_command_response.  The write
   raises socket.error when the remote end has closed the channel. *)
SendCommand(line, ln, auto) ==
    /\ cms_cmd_count' = IF NeedsWrap(line, cms_profile)
                        THEN cms_cmd_count + 10 ELSE cms_cmd_count
    /\ \/ /\ chan # "closed"
          /\ sent' = Append(sent, [text |-> CommandText(line, cms_profile, cms_cmd_count),
                                   lineno |-> ln, auto |-> auto])
          /\ response' = <<>>
          /\ cycle' = "AwaitingResponse"
          /\ cyclelog' = IF auto THEN cyclelog ELSE {}
          /\ pc' = "recv"
          /\ chan' = chan
       \/ /\ chan' = "closed"
          /\ pc' = "crashed"
          /\ UNCHANGED <<sent, response, cycle, cyclelog>>

---------------------------------------------------------------------------
(* The run: main *)

Init ==
    /\ pc = "getargs"
    /\ script = <<>>
    /\ cms_profile = NoProfile
    /\ vars = InitVars
    /\ prompt = <<>>
    /\ cms_cmd_count = 10
    /\ lineno = 0
    /\ conn = "unopened"
    /\ chan = "none"
    /\ chanTimeout = FALSE
    /\ response = <<>>
    /\ depth = 0
    /\ caller = "none"
    /\ cycle = "None"
    /\ sent = <<>>
    /\ log = {}
    /\ cyclelog = {}
    /\ slept = 0
    /\ fileErr = FALSE

(* The orders in which 'for x in self.vars' may go through the dict: the
   language leaves the order open.  A line without a placeholder is sent as it
   is in every order, so one order stands for all of them. *)
LoopOrders(line) ==
    IF \E x \in VarNames : Search(<<{Placeholder(x)}>>, line)
    THEN VarOrders
    ELSE {<<"URL", "VMNAME", "IMAGE">>}

(* The -U and -N arguments are enumerated for the scripts that read them: a
   script without a placeholder never reads a value of self.vars. *)
ReadsVars(f) ==
    \E i \in 1..Len(f), x \in VarNames : Search(<<{Placeholder(x)}>>, f[i])
ArgChoices(f) ==
    IF ReadsVars(f) THEN UrlArgs \X NameArgs ELSE {<<None, Some(<<"vm1">>)>>}

(* getargs: the arguments of this run, with the file they name; then main
   starts the macro pass. *)
GetArgs ==
    /\ pc = "getargs"
    /\ \E e \in BOOLEAN, c \in ProfileArgs :
         \E f \in (IF e THEN {<<>>} ELSE Scripts) :
            \E a \in ArgChoices(f) :
               /\ fileErr' = e
               /\ script' = f
               /\ cms_profile' = c
               /\ vars' = PopulateVars(vars, a[1], a[2])
    /\ prompt' = DefaultPrompts
    /\ lineno' = 1
    /\ pc' = "discover"
    /\ UNCHANGED <<cms_cmd_count, conn, chan, chanTimeout, response, depth, caller,
                   cycle, sent, log, cyclelog, slept>>

(* parse_file(macro=True) with an 'except OSError' clause that catches the
   failure of open(): the error is logged, parse_file returns and main goes
   on. *)
ParseFileMacroCaught ==
    /\ pc = "discover"
    /\ IF fileErr
       THEN /\ pc' = "open"
            /\ log' = log \cup {[ev |-> "cannot open file", arg |-> "", lineno |-> 0]}
            /\ UNCHANGED <<prompt, lineno>>
       ELSE IF lineno > Len(script)
       THEN pc' = "open" /\ UNCHANGED <<prompt, lineno, log>>
       ELSE LET line == script[lineno]
            IN  IF ~IsComment(line) /\ ~IsBlank(line) /\ StartsAtWord(line)
                THEN LET ps == ParseMacro(line, prompt)
                     IN  IF ps = <<"error">>
                         THEN /\ pc' = "crashed"
                              /\ log' = log \cup {Traceback("AttributeError")}
                              /\ UNCHANGED <<prompt, lineno>>
                         ELSE prompt' = ps /\ lineno' = lineno + 1 /\ UNCHANGED <<pc, log>>
                ELSE lineno' = lineno + 1 /\ UNCHANGED <<pc, prompt, log>>
    /\ UNCHANGED <<script, cms_profile, vars, cms_cmd_count, conn, chan, chanTimeout,
                   response, depth, caller, cycle, sent, cyclelog, slept, fileErr>>

(* parse_file(macro=True): one iteration of the loop, or its end.  open()
   raises IOError, which 'except OSError' does not catch (the module is
   Python 2: it uses the print statement): the run ends with the traceback. *)
ParseFileMacro ==
    /\ pc = "discover"
    /\ IF fileErr
       THEN /\ pc' = "crashed"
            /\ log' = log \cup {Traceback("IOError")}
            /\ UNCHANGED <<prompt, lineno>>
       ELSE IF lineno > Len(script)
       THEN pc' = "open" /\ UNCHANGED <<prompt, lineno, log>>
       ELSE LET line == script[lineno]
            IN  IF ~IsComment(line) /\ ~IsBlank(line) /\ StartsAtWord(line)
                THEN LET ps == ParseMacro(line, prompt)
                     IN  IF ps = <<"error">>
                         THEN /\ pc' = "crashed"
                              /\ log' = log \cup {Traceback("AttributeError")}
                              /\ UNCHANGED <<prompt, lineno>>
                         ELSE prompt' = ps /\ lineno' = lineno + 1 /\ UNCHANGED <<pc, log>>
                ELSE lineno' = lineno + 1 /\ UNCHANGED <<pc, prompt, log>>
    /\ UNCHANGED <<script, cms_profile, vars, cms_cmd_count, conn, chan, chanTimeout,
                   response, depth, caller, cycle, sent, cyclelog, slept, fileErr>>

(* open_conn up to the first poll of the login flush.  A failed connect is
   logged and then get_transport() of the unconnected client fails. *)
OpenConn ==
    /\ pc = "open"
    /\ \/ /\ conn' = "open"
          /\ chan' = "open"
          /\ response' = <<>>
          /\ cycle' = "AwaitingResponse"
          /\ caller' = "open_conn"
          /\ pc' = "recv"
          /\ log' = log
       \/ /\ log' = log \cup {[ev |-> "connect error", arg |-> "", lineno |-> 0]}
          /\ pc' = "crashed"
          /\ UNCHANGED <<conn, chan, response, cycle, caller>>
    /\ UNCHANGED <<script, cms_profile, vars, prompt, cms_cmd_count, lineno,
                   chanTimeout, depth, sent, cyclelog, slept, fileErr>>

(* The end of the outermost parse_command_response: every frame above it
   breaks out of its loop and returns; open_conn then sets the channel timeout
   and main starts the execution pass, parse_file goes on to its next line. *)
Return(res) ==
    /\ cycle' = res
    /\ response' = <<>>
    /\ depth' = 0
    /\ pc' = "exec"
    /\ caller' = "none"
    /\ IF caller = "open_conn"
       THEN chanTimeout' = TRUE /\ lineno' = 1
       ELSE lineno' = lineno + 1 /\ UNCHANGED chanTimeout

NYes == Cardinality({i \in 1..Len(sent) : sent[i].auto})

(* parse_command_response: the loop condition finds the exit status ready. *)
RecvExit ==
    /\ pc = "recv"
    /\ chan \in {"open", "exited"}
    /\ chan' = "exited"
    /\ Return("ChannelExited")
    /\ UNCHANGED <<script, cms_profile, vars, prompt, cms_cmd_count, conn,
                   sent, log, cyclelog, slept, fileErr>>

(* parse_command_response without the 'except socket.timeout' clause. *)
RecvTimeoutFatal ==
    /\ pc = "recv"
    /\ chan = "open"
    /\ chanTimeout
    /\ pc' = "crashed"
    /\ log' = log \cup {Traceback("socket.timeout")}
    /\ UNCHANGED <<script, cms_profile, vars, prompt, cms_cmd_count, lineno, conn, chan,
                   chanTimeout, response, depth, caller, cycle, sent, cyclelog, slept,
                   fileErr>>

(* parse_command_response: recv raises socket.timeout, which the frame
   catches and passes to self.logger.debug before it returns. *)
RecvTimeout ==
    /\ pc = "recv"
    /\ chan = "open"
    /\ chanTimeout
    /\ Return("TimedOut")
    /\ cyclelog' = cyclelog \cup {"timeout"}
    /\ UNCHANGED <<script, cms_profile, vars, prompt, cms_cmd_count, conn,
                   chan, sent, log, slept, fileErr>>

(* parse_command_response: one iteration of the loop that receives a chunk
   made of the given tokens.  The first decode of the accumulated bytes raises
   UnicodeDecodeError when they do not decode, and nothing catches it. *)
Recv(tokens) ==
    /\ pc = "recv"
    /\ chan = "open"
    /\ \E n \in 1..(MaxResp - Len(response)) : \E c \in [1..n -> tokens] :
         LET r == response \o c
         IN  IF ~Decodable(r)
             THEN /\ response' = r
                  /\ pc' = "crashed"
                  /\ log' = log \cup {Traceback("UnicodeDecodeError")}
                  /\ UNCHANGED <<cms_cmd_count, chan, sent, cycle, depth, lineno,
                                 chanTimeout, caller, cyclelog>>
             ELSE IF Search(cmc_prompt, r)
             THEN /\ NYes < MaxYes
                  /\ SendCommand(YesLine, IF caller = "open_conn" THEN 0 ELSE lineno, TRUE)
                  /\ depth' = IF pc' = "recv" THEN depth + 1 ELSE depth
                  /\ UNCHANGED <<lineno, chanTimeout, caller, log>>
             ELSE IF \E i \in 1..Len(prompt) : Search(prompt[i], r)
             THEN /\ Return("PromptMatched")
                  /\ cyclelog' = IF Search(cli_error_re, r)
                                 THEN cyclelog \cup {"error"} ELSE cyclelog
                  /\ UNCHANGED <<cms_cmd_count, chan, sent, log>>
             ELSE /\ response' = r
                  /\ UNCHANGED <<cms_cmd_count, chan, sent, pc, cycle, depth, lineno,
                                 chanTimeout, caller, log, cyclelog>>
    /\ UNCHANGED <<script, cms_profile, vars, prompt, conn, slept, fileErr>>

(* A device that sends prompts only. *)
RecvChunk == Recv(RespTokens)

(* A device that also sends error lines and characters outside ASCII. *)
RecvBytes == Recv(DeviceTokens)

(* A device that answers the command and every YES with the confirmation
   prompt: send_command and parse_command_response call each other without a
   limit of their own, until the recursion limit of the interpreter raises
   RuntimeError, which nothing catches.  The replies written on the way are
   not counted in 'sent'. *)
ConfirmForever ==
    /\ pc = "recv"
    /\ chan = "open"
    /\ response = <<>> /\ depth = 0
    /\ pc' = "crashed"
    /\ log' = log \cup {Traceback("RuntimeError")}
    /\ UNCHANGED <<script, cms_profile, vars, prompt, cms_cmd_count, lineno, conn, chan,
                   chanTimeout, response, depth, caller, cycle, sent, cyclelog, slept,
                   fileErr>>

(* parse_file(): one iteration of the loop. *)
ParseFileExec ==
    /\ pc = "exec"
    /\ lineno <= Len(script)
    /\ LET line == script[lineno]
       IN       IF IsComment(line) \/ IsBlank(line)
                THEN /\ lineno' = lineno + 1
                     /\ UNCHANGED <<pc, cms_cmd_count, chan, response, caller, cycle, sent,
                                    log, cyclelog, slept>>
                ELSE IF StartsAt(line)
                THEN LET k == ExecMacro(line, cms_profile)
                     IN  /\ pc' = CASE k = "error" -> "crashed"
                                    [] k = "exit" -> "exited"
                                    [] OTHER -> pc
                         /\ lineno' = IF k \in {"sleep", "return"} THEN lineno + 1 ELSE lineno
                         /\ slept' = IF k = "sleep" THEN slept + IntOf(MacroAction(line)) ELSE slept
                         /\ log' = IF k = "error"
                                    THEN log \cup {Traceback(IF MacroMatches(line)
                                                             THEN "ValueError"
                                                             ELSE "AttributeError")}
                                    ELSE log
                         /\ UNCHANGED <<cms_cmd_count, chan, response, caller, cycle, sent,
                                        cyclelog>>
                ELSE \E order \in LoopOrders(line) :
                       LET s == Substitute(line, order, vars)
                       IN  /\ log' = log \cup {[ev |-> "no value", arg |-> x,
                                                 lineno |-> lineno] : x \in s.info}
                           /\ SendCommand(s.line, lineno, FALSE)
                           /\ caller' = "parse_file"
                           /\ UNCHANGED <<lineno, slept>>
    /\ UNCHANGED <<script, cms_profile, vars, prompt, conn, chanTimeout, depth,
                   fileErr>>

(* parse_file() has no line left and returns: close_conn, and the end of
   main. *)
CloseConn ==
    /\ pc = "exec"
    /\ lineno > Len(script)
    /\ conn' = "closed"
    /\ pc' = "done"
    /\ UNCHANGED <<script, cms_profile, vars, prompt, cms_cmd_count, lineno,
                   chan, chanTimeout, response, depth, caller, cycle, sent, log,
                   cyclelog, slept, fileErr>>

(* The values the state takes. *)
TypeOK ==
    /\ pc \in {"getargs", "discover", "open", "recv", "exec", "done", "exited", "crashed"}
    /\ script \in Scripts
    /\ cms_profile \in ProfileArgs
    /\ DOMAIN vars = VarNames
    /\ cms_cmd_count \in {10 * k : k \in 1..(MaxLines + MaxYes + 1)}
    /\ lineno \in 0..(MaxLines + 1)
    /\ conn \in {"unopened", "open", "closed"}
    /\ chan \in {"none", "open", "exited", "closed"}
    /\ chanTimeout \in BOOLEAN
    /\ Len(response) <= MaxResp
    /\ depth \in 0..MaxYes
    /\ caller \in {"none", "open_conn", "parse_file"}
    /\ cycle \in {"None", "AwaitingResponse", "PromptMatched", "TimedOut", "ChannelExited"}
    /\ Len(sent) <= MaxLines + MaxYes
    /\ cyclelog \subseteq {"timeout", "error"}
    /\ slept \in 0..(3 * MaxLines)
    /\ fileErr \in BOOLEAN

Next ==
    \/ GetArgs
    \/ ParseFileMacro
    \/ OpenConn
    \/ RecvExit
    \/ RecvTimeout
    \/ RecvChunk
    \/ ConfirmForever
    \/ ParseFileExec
    \/ CloseConn

Spec == Init /\ [][Next]_vars_all

(* The same program in front of a device that sends any byte. *)
NextDevice ==
    \/ GetArgs
    \/ ParseFileMacro
    \/ OpenConn
    \/ RecvExit
    \/ RecvTimeout
    \/ RecvBytes
    \/ ConfirmForever
    \/ ParseFileExec
    \/ CloseConn

SpecDevice == Init /\ [][NextDevice]_vars_all

---------------------------------------------------------------------------
(* Properties. *)

Terminated == pc \in {"done", "exited", "crashed"}
ExecPass == chanTimeout
Resolved == {"PromptMatched", "TimedOut"}
IsPromptLine(line) == MacroMatches(line) /\ MacroName(line) = "prompt"
IsExitLine(line) == MacroMatches(line) /\ MacroName(line) = "exit"
IsSendable(line) == ~IsComment(line) /\ ~IsBlank(line) /\ ~StartsAt(line)
ScriptWrites == {i \in 1..Len(sent) : ~sent[i].auto}
Occurs(tok, text) == \E k \in 1..Len(text) : text[k] = tok

(* C1: a script line is written after an earlier one only when the receive
   cycle of the earlier one has resolved to PromptMatched or TimedOut. *)
C1_NoPipelining ==
    [][(pc = "exec" /\ pc' = "recv" /\ ScriptWrites # {}) => cycle \in Resolved]_vars_all

(* C2: seeing the confirmation prompt writes exactly one reply, the line
   'YES', and the cycle that follows the reply resolves only on a prompt match
   or a timeout. *)
C2_ConfirmationReply ==
    /\ [][(pc = "recv" /\ depth' = depth + 1) =>
            /\ Len(sent') = Len(sent) + 1
            /\ sent'[Len(sent')].text = YesLine
            /\ cycle' = "AwaitingResponse"]_vars_all
    /\ [][(pc = "recv" /\ depth > 0 /\ pc' = "exec") => cycle' \in Resolved]_vars_all

(* C3: once the macro pass is over, so before the connection is opened and
   at any time after it, the pattern of every '@prompt X' line of the script is
   in the prompt list; during the macro pass there is no channel and nothing
   has been sent. *)
C3_PromptsBeforeOpen ==
    /\ (pc = "open" \/ conn # "unopened") =>
          \A i \in 1..Len(script) :
             IsPromptLine(script[i]) =>
                \E j \in 1..Len(prompt) : prompt[j] = Literal(MacroAction(script[i]))
    /\ pc \in {"getargs", "discover"} => conn = "unopened" /\ chan = "none" /\ sent = <<>>

C3_Witness ==
    /\ conn = "open" /\ Len(sent) > 0
    /\ \E i \in 1..Len(script) : IsPromptLine(script[i])
    /\ Len(prompt) > Len(DefaultPrompts)

(* C4: the execution pass never goes past an '@exit' line, with or without a
   CMS profile: nothing written comes from a later line, the run has ended at
   that line with nothing left to do, every earlier command line was written
   and no receive cycle is in progress. *)
C4_ExitStopsRun ==
    /\ ExecPass => \A i \in 1..Len(script) :
                      IsExitLine(script[i]) =>
                         /\ lineno <= i
                         /\ \A k \in 1..Len(sent) : sent[k].lineno < i
    /\ pc = "exited" =>
          /\ lineno \in 1..Len(script) /\ IsExitLine(script[lineno])
          /\ \A i \in 1..(lineno - 1) :
                IsSendable(script[i]) => \E k \in ScriptWrites : sent[k].lineno = i
          /\ cycle # "AwaitingResponse"
          /\ ~ENABLED Next

C4_Witness ==
    /\ pc = "exited" /\ cms_profile # NoProfile
    /\ lineno < Len(script) /\ IsSendable(script[lineno + 1])

(* C5: a run that opened the connection never ends with it still open. *)
C5_ClosedOnEveryExit ==
    (Terminated /\ conn # "unopened") => conn = "closed"

(* C6: no line is sent that still holds the placeholder of a variable that
   has a value. *)
C6_DefinedSubstituted ==
    \A k \in ScriptWrites : \A x \in VarNames :
       vars[x] # None => ~Occurs(Placeholder(x), sent[k].text)

(* C7: for every line sent and every placeholder in it that has no value, an
   info event naming the variable is in the log and the placeholder is still in
   the line as sent; the run does not end at such a line. *)
C7_UndefinedReported ==
    /\ \A k \in ScriptWrites : \A x \in VarNames :
          (vars[x] = None /\ Occurs(Placeholder(x), script[sent[k].lineno])) =>
             /\ [ev |-> "no value", arg |-> x, lineno |-> sent[k].lineno] \in log
             /\ Occurs(Placeholder(x), sent[k].text)
    /\ (pc = "exited" /\ lineno \in 1..Len(script)) => IsExitLine(script[lineno])

(* C8: comment, blank and whitespace-only lines are never written, and a run
   that reached its end has written exactly the lines that are neither of
   these nor macros. *)
IsWhitespaceOnly(line) == \A k \in 1..Len(line) : IsSpace(line[k])
C8_SkippedLines ==
    /\ \A k \in ScriptWrites :
          ~IsComment(script[sent[k].lineno]) /\ ~IsWhitespaceOnly(script[sent[k].lineno])
    /\ pc = "done" =>
          Cardinality(ScriptWrites) =
             Cardinality({i \in 1..Len(script) :
                            /\ ~IsComment(script[i]) /\ ~IsWhitespaceOnly(script[i])
                            /\ ~StartsAt(script[i])})

(* C9: with a CMS profile, the n-th wrapped script line carries the number
   10 * n. *)
WrappedWrites == {k \in ScriptWrites : sent[k].text[1] = "cmc profile "}
C9_SequenceNumbers ==
    \A k \in WrappedWrites :
       sent[k].text[4] = ToString(10 * Cardinality({j \in WrappedWrites : j <= k}))

(* C10: with a CMS profile a script line is written unwrapped exactly when it
   begins with 'en' or with 'co', whitespace, 't'; without one every line is
   written as it is. *)
BeginsWithLogin(line) ==
    \/ Len(line) >= 1 /\ line[1] = "en"
    \/ Len(line) >= 3 /\ line[1] = "co" /\ IsSpace(line[2]) /\ line[3] = "t"
C10_WrapUnlessLogin ==
    \A k \in ScriptWrites :
       IF cms_profile # NoProfile
       THEN (sent[k].text[1] # "cmc profile ") <=> BeginsWithLogin(script[sent[k].lineno])
       ELSE \E order \in VarOrders :
               sent[k].text = Substitute(script[sent[k].lineno], order, vars).line

(* C11: whatever the chunks, no receive cycle is left waiting or failed with
   accumulated text in which an active prompt pattern matches: the cycle has
   resolved by the chunk that completes the match. *)
C11_ChunkingIndependent ==
    pc \in {"recv", "crashed"} => ~\E i \in 1..Len(prompt) : Search(prompt[i], response)

(* C12: in the execution pass a macro line that is not a well formed '@exit'
   or '@sleep k' is never written to the channel, the run does not end at it,
   and once the pass is beyond it an error naming the line has been reported. *)
WellFormedMacro(line) ==
    /\ MacroMatches(line)
    /\ \/ MacroName(line) = "exit"
       \/ MacroName(line) = "sleep" /\ IsInt(MacroAction(line))
C12_UnknownMacroReported ==
    ExecPass =>
       \A i \in 1..Len(script) :
          (StartsAt(script[i]) /\ ~WellFormedMacro(script[i])) =>
             /\ \A k \in 1..Len(sent) : sent[k].lineno # i
             /\ lineno = i => pc \notin {"crashed", "exited"}
             /\ lineno > i => [ev |-> "macro error", arg |-> "", lineno |-> i] \in log

(* C13: after the macro pass the prompt list is the default list followed by
   one pattern for each line whose macro name is exactly 'prompt', and the
   pass raised no error at a macro line. *)
C13_OnlyPromptExtends ==
    /\ (pc = "open" \/ conn # "unopened") =>
          Len(prompt) = Len(DefaultPrompts)
                          + Cardinality({i \in 1..Len(script) : IsPromptLine(script[i])})
    /\ ~ExecPass => Traceback("AttributeError") \notin log

(* C14: without a CMS profile the seconds slept are, at every moment of the
   execution pass, those of the '@sleep k' lines before the current line, so
   each line is written after the sleeps before it are over; with a CMS profile
   nothing is slept, and the pass still never goes beyond an '@exit' line. *)
IsSleepLine(line) ==
    MacroMatches(line) /\ MacroName(line) = "sleep" /\ IsInt(MacroAction(line))
RECURSIVE SleepDue(_)
SleepDue(n) ==
    IF n = 0 THEN 0
    ELSE SleepDue(n - 1)
           + (IF IsSleepLine(script[n]) THEN IntOf(MacroAction(script[n])) ELSE 0)
C14_SleepBeforeNextLine ==
    /\ ~ExecPass => slept = 0
    /\ ExecPass => slept = IF cms_profile = NoProfile THEN SleepDue(lineno - 1) ELSE 0
    /\ (ExecPass /\ cms_profile # NoProfile) =>
          \A i \in 1..Len(script) : IsExitLine(script[i]) => lineno <= i

C14_Witness ==
    /\ cms_profile = NoProfile /\ slept > 0
    /\ \E k \in ScriptWrites :
          sent[k].lineno > 1 /\ IsSleepLine(script[sent[k].lineno - 1])

(* C15: a timeout of the channel read never ends the run with an exception;
   a cycle that ended in TimedOut has passed the timeout to the logger and has
   returned, parse_file is beyond the line of the command, and it can handle
   its next line or main can close the connection. *)
C15_TimeoutNotFatal ==
    /\ Traceback("socket.timeout") \notin log
    /\ cycle = "TimedOut" =>
          /\ "timeout" \in cyclelog
          /\ pc # "recv"
          /\ \A k \in ScriptWrites : sent[k].lineno < lineno
          /\ pc = "exec" => ENABLED (ParseFileExec \/ CloseConn)

C15_Witness ==
    /\ cycle = "TimedOut" /\ pc = "exec"
    /\ lineno <= Len(script) /\ IsSendable(script[lineno])

(* C16: the receive cycle of a command that resolves with an error line of
   the device in its accumulated text has reported the error, whether it
   resolves by a prompt match or by a timeout. *)
C16_ErrorAlwaysReported ==
    [][(/\ pc = "recv" /\ pc' = "exec" /\ caller = "parse_file"
        /\ cycle' \in Resolved
        /\ Search(cli_error_re, response))
          => "error" \in cyclelog']_vars_all

(* C17: no run ends because the bytes accumulated in a receive cycle do not
   decode. *)
C17_SplitCharacterTolerated ==
    Traceback("UnicodeDecodeError") \notin log

(* C18: when the script file cannot be opened the run never gets beyond the
   macro pass: no connection, no channel, nothing sent; and it ends with the
   failure reported. *)
C18_FileOpenFailureAborts ==
    fileErr =>
       /\ pc \in {"discover", "crashed"}
       /\ conn = "unopened" /\ chan = "none" /\ sent = <<>>
       /\ pc = "crashed" => Traceback("IOError") \in log

C18_Witness ==
    fileErr /\ pc = "crashed"

(* C19: whenever the program waits for bytes of the channel, the idle timeout
   is set on the channel. *)
C19_WaitsBounded ==
    (pc = "recv" /\ chan = "open") => chanTimeout

(* C20: no run ends in the recursion of confirmation replies. *)
C20_ConfirmationsBounded ==
    Traceback("RuntimeError") \notin log

====
